---------------------------- MODULE Spec2Model ----------------------------
(***************************************************************************)
(* readlen: reading statistics for text files.                             *)
(*                                                                         *)
(* The module models the command-line program of src/unnamed/part_001      *)
(* (the parseArgs front end, which has the totalOnly option; src/index.ts  *)
(* is the commander front end over the same functions):                    *)
(*   - the pure functions processText, formatReadTime, formatNumber,       *)
(*   - processFile and the processFiles loop over the path arguments,      *)
(*     one step per await, with an environment that may delete a file or   *)
(*     make it unreadable between any two steps,                           *)
(*   - the report written to standard output.                              *)
(*                                                                         *)
(* A text is a sequence of one-character strings.  A minute count is a     *)
(* fixed-point number: the integer n stands for n / Res minutes, so that   *)
(* formatReadTime is modelled on fractional minutes too.  Strings are built *)
(* as the code builds them; chalk's colours are left out.                  *)
(***************************************************************************)
EXTENDS Integers, Sequences, FiniteSets, TLC

VARIABLES
    values,     \* parseArgs' values, with files = positionals.slice(2)
    fs,         \* the file system: the state of every regular file
    pc,         \* the program's position
    i,          \* index in files of the argument of the for loop
    branch,     \* "file" or "dir": the branch of the if taken for the argument
    cur,        \* the path processFile was called with
    scanList,   \* what the directory scan has still to yield
    results,    \* const results: FileStats[]
    stderr,     \* lines written by console.error
    stdout,     \* lines written by console.log
    exitCode,   \* the process's exit code, -1 while it runs
    resolved,   \* history: the paths handed to processFile, and what became of each
    fsOps,      \* history: number of file-system calls made (exists, scan, text)
    envSteps,   \* number of changes the environment has made
    raced,      \* history: the environment made a change after the run began
    arg,        \* the argument a pure function is called with
    ret         \* its return value

vars == <<values, fs, pc, i, branch, cur, scanList, results, stderr, stdout,
          exitCode, resolved, fsOps, envSteps, raced, arg, ret>>

-----------------------------------------------------------------------------
(* Bounds of the model *)

MaxLen == 6          \* longest text given to processText
MaxWords == 720      \* largest word count given to the read-time formula
MaxMinutes == 125    \* largest minute count given to formatReadTime
Res == 8             \* minutes are counted in 1/Res (an exact binary fraction)
MaxFiles == 3        \* longest ResultSet given to the report
MaxArgs == 2         \* most path arguments of an invocation
MaxEnvSteps == 1     \* most changes the environment makes during a run

-----------------------------------------------------------------------------
(* Helpers on sequences *)

Max(S) == CHOOSE x \in S : \A y \in S : y <= x

RECURSIVE SeqsUpTo(_, _)
SeqsUpTo(S, n) ==
    IF n = 0 THEN {<<>>}
    ELSE LET shorter == SeqsUpTo(S, n - 1)
         IN  shorter \cup {Append(s, x) : s \in {t \in shorter : Len(t) = n - 1}, x \in S}

-----------------------------------------------------------------------------
(* processText *)

Letters == {"a", "A"}
Whitespace == {" ", "\n"}
Alphabet == Letters \cup Whitespace

IsWs(c) == c \in Whitespace

\* String.prototype.toLowerCase, character by character
LowerChar(c) == IF c = "A" THEN "a" ELSE c
ToLowerCase(text) == [k \in 1..Len(text) |-> LowerChar(text[k])]

\* the last index of the run of whitespace that starts at q (greedy \s+)
WsRunEnd(t, q) ==
    Max({e \in q..Len(t) : \A k \in q..e : IsWs(t[k])})

\* MatchEnd with a lazy quantifier in the paragraph expression, /\n\s*?\n/:
\* the match ends at the first newline that follows, not the last
MatchEndLazy(re, t, q) ==
    IF re = "words"
    THEN IF IsWs(t[q]) THEN WsRunEnd(t, q) ELSE 0
    ELSE IF t[q] = "\n"
         THEN LET ends == {e \in (q + 1)..WsRunEnd(t, q) : t[e] = "\n"}
              IN  IF ends = {} THEN 0 ELSE CHOOSE e \in ends : \A f \in ends : e <= f
         ELSE 0

\* The regular expressions of the two splits: the index of the last character
\* of the match that starts at q, 0 when there is no match at q.
\*   "words":      /\s+/      whitespace, as much as there is
\*   "paragraphs": /\n\s*\n/  a newline, whitespace as much as there is while a
\*                            newline still follows (backtracking), a newline
MatchEnd(re, t, q) ==
    IF re = "words"
    THEN IF IsWs(t[q]) THEN WsRunEnd(t, q) ELSE 0
    ELSE IF t[q] = "\n"
         THEN LET ends == {e \in (q + 1)..WsRunEnd(t, q) : t[e] = "\n"}
              IN  IF ends = {} THEN 0 ELSE Max(ends)
         ELSE 0

\* String.prototype.split with a regular expression that matches no empty
\* string: p is where the current piece starts, q where a match is tried.
RECURSIVE Split(_, _, _, _)
Split(re, t, p, q) ==
    IF q > Len(t) THEN <<SubSeq(t, p, Len(t))>>
    ELSE LET e == MatchEnd(re, t, q)
         IN  IF e = 0 THEN Split(re, t, p, q + 1)
             ELSE <<SubSeq(t, p, q - 1)>> \o Split(re, t, e + 1, e + 1)

\* .filter(Boolean) on strings: the empty string is the only falsy one
FilterBoolean(pieces) == SelectSeq(pieces, LAMBDA s : s # <<>>)

SILENT_READING_WPM == 238

\* ReadTime with Math.floor in place of Math.ceil
ReadTimeFloor(wordCount) == wordCount \div SILENT_READING_WPM

\* ReadTime with Math.round in place of Math.ceil
ReadTimeRound(wordCount) ==
    (2 * wordCount + SILENT_READING_WPM) \div (2 * SILENT_READING_WPM)

\* Math.ceil(wordCount / SILENT_READING_WPM)
ReadTime(wordCount) ==
    IF wordCount % SILENT_READING_WPM = 0
    THEN wordCount \div SILENT_READING_WPM
    ELSE wordCount \div SILENT_READING_WPM + 1

processText(text) ==
    LET normalizedText == ToLowerCase(text)
        words == FilterBoolean(Split("words", normalizedText, 1, 1))
        wordCount == Len(words)
    IN  [wordCount |-> wordCount,
         charCount |-> Len(normalizedText),
         paragraphCount |->
             Len(FilterBoolean(Split("paragraphs", normalizedText, 1, 1))),
         readTime |-> ReadTime(wordCount)]

-----------------------------------------------------------------------------
(* formatReadTime and formatNumber *)

\* a whole number of minutes as a fixed-point minute count
Minutes(n) == n * Res

\* Array.prototype.join(", ")
RECURSIVE Join(_)
Join(parts) ==
    IF Len(parts) = 0 THEN ""
    ELSE IF Len(parts) = 1 THEN parts[1]
    ELSE parts[1] \o ", " \o Join(Tail(parts))

\* `${n} ${n === 1 ? unit : unit + "s"}`
Part(n, unit) == ToString(n) \o " " \o (IF n = 1 THEN unit ELSE unit \o "s")

\* formatReadTime without the test hours === 0 on the seconds
formatReadTimeSeconds(minutes) ==
    LET hours == minutes \div (60 * Res)
        remainingMinutes == (minutes % (60 * Res)) \div Res
        seconds == (2 * 60 * (minutes % Res) + Res) \div (2 * Res)
        p1 == IF hours > 0 THEN <<Part(hours, "hour")>> ELSE <<>>
        p2 == IF remainingMinutes > 0
              THEN Append(p1, Part(remainingMinutes, "minute")) ELSE p1
        parts == IF seconds > 0
                 THEN Append(p2, Part(seconds, "second")) ELSE p2
    IN  IF Len(parts) > 0 THEN Join(parts) ELSE "< 1 second"

\* minutes is the fixed-point count: minutes / Res minutes.
\* Math.round(x) is floor(x + 1/2).
formatReadTime(minutes) ==
    LET hours == minutes \div (60 * Res)
        remainingMinutes == (minutes % (60 * Res)) \div Res
        seconds == (2 * 60 * (minutes % Res) + Res) \div (2 * Res)
        p1 == IF hours > 0 THEN <<Part(hours, "hour")>> ELSE <<>>
        p2 == IF remainingMinutes > 0
              THEN Append(p1, Part(remainingMinutes, "minute")) ELSE p1
        parts == IF seconds > 0 /\ hours = 0
                 THEN Append(p2, Part(seconds, "second")) ELSE p2
    IN  IF Len(parts) > 0 THEN Join(parts) ELSE "< 1 second"

\* three digits of a group after the first
Group3(n) ==
    (IF n < 10 THEN "00" ELSE IF n < 100 THEN "0" ELSE "") \o ToString(n)

\* num.toLocaleString("en-US", { useGrouping: true }) of a non-negative integer
RECURSIVE formatNumber(_)
formatNumber(num) ==
    IF num < 1000 THEN ToString(num)
    ELSE formatNumber(num \div 1000) \o "," \o Group3(num % 1000)

-----------------------------------------------------------------------------
(* The file system *)

\* What lies under the directory "d", in the order a scan lists it: the path
\* the scan yields (absolute: true), the number of directories between "d"
\* and the entry, the extension of its name, and whether it is a regular
\* file or a directory.
DirEntries ==
    << [path |-> "/cwd/d/a.txt",      depth |-> 0, ext |-> "txt",  kind |-> "file"],
       [path |-> "/cwd/d/b.md",       depth |-> 0, ext |-> "md",   kind |-> "file"],
       [path |-> "/cwd/d/c.png",      depth |-> 0, ext |-> "png",  kind |-> "file"],
       [path |-> "/cwd/d/sub",        depth |-> 0, ext |-> "",     kind |-> "dir"],
       [path |-> "/cwd/d/sub/e.json", depth |-> 1, ext |-> "json", kind |-> "file"],
       [path |-> "/cwd/d/x.html",     depth |-> 0, ext |-> "html", kind |-> "dir"] >>

DirFiles == {DirEntries[k].path : k \in {j \in DOMAIN DirEntries : DirEntries[j].kind = "file"}}

\* the regular files there can be
Files == {"notes.csv"} \cup DirFiles

\* the directories that can be scanned
Dirs == {"d"}

\* what a path argument can be: a file, a directory, a name of nothing
PathArgs == {"notes.csv", "d", "missing"}

FileStates == {"ok", "unreadable", "absent"}

\* the text of each file
Content(path) ==
    CASE path = "notes.csv"         -> <<"a", " ", "A">>
      [] path = "/cwd/d/a.txt"      -> <<"A", "\n", "\n", "a">>
      [] path = "/cwd/d/b.md"       -> <<>>
      [] path = "/cwd/d/c.png"      -> <<"a">>
      [] OTHER                      -> <<"a", " ", "a", "\n", "a">>

\* await Bun.file(path).exists(): true of a regular file only
Exists(fsys, path) == path \in Files /\ fsys[path] # "absent"

\* ReadText that resolves with an empty text where the file cannot be read
ReadTextNoThrow(fsys, path) ==
    [ok |-> TRUE, text |-> IF fsys[path] = "ok" THEN Content(path) ELSE <<>>]

\* await file.text(): the text, or the error it rejects with
ReadText(fsys, path) ==
    IF fsys[path] = "ok" THEN [ok |-> TRUE, text |-> Content(path)]
    ELSE IF fsys[path] = "absent"
         THEN [ok |-> FALSE, err |-> "ENOENT: no such file or directory, open"]
         ELSE [ok |-> FALSE, err |-> "EACCES: permission denied, open"]

\* the extensions of "*.{txt,md,html,json}"
GlobExtensions == {"txt", "md", "html", "json"}

\* GlobMatch with the recursive pattern whatever the flag
GlobMatchAnyDepth(entry, recursive) ==
    /\ entry.kind = "file"
    /\ entry.ext \in GlobExtensions

\* new Bun.Glob(recursive ? "**/*.{txt,md,html,json}" : "*.{txt,md,html,json}")
\* on one entry under cwd, with onlyFiles: true
GlobMatch(entry, recursive) ==
    /\ entry.kind = "file"
    /\ entry.ext \in GlobExtensions
    /\ (recursive \/ entry.depth = 0)

\* glob.scan({ cwd, absolute: true, onlyFiles: true }) of an existing
\* directory: the matching files that exist, in listing order
ScanResult(fsys, recursive) ==
    LET hit(e) == GlobMatch(e, recursive) /\ fsys[e.path] # "absent"
        sel == SelectSeq(DirEntries, hit)
    IN  [k \in 1..Len(sel) |-> sel[k].path]

-----------------------------------------------------------------------------
(* Messages *)

UsageText == "readlen - calculate reading statistics for text files"
VersionText == "readlen <version> (bun <version>)"
NoFilesText == "Error: No files specified"
NoValidText == "no valid text files found."
ScanError == "ENOENT: no such file or directory, scandir"

\* throw new Error(`file not found: ${path}`), as console.error prints it
NotFoundError(path) == "Error: file not found: " \o path

\* chalk.red(`error processing ${path}:`, err)
ErrorLine(path, err) == "error processing " \o path \o ": " \o err

\* CatchFileError with an empty catch block
CatchFileErrorSilent(log, path, err) == log

\* catch (err) { console.error(...) } around processFile
CatchFileError(log, path, err) == Append(log, ErrorLine(path, err))

\* catch (err) { console.error(...) } around the body of the for loop
CatchPathError(log, path, err) == Append(log, ErrorLine(path, err))

\* process.exit codes
ExitUsage == 1
ExitHelp == 0
\* ExitEmpty as a failure: process.exit(1) where no file was analyzed
ExitEmptyFailure == ExitUsage
ExitEmpty == 0
ExitNormal == 0

-----------------------------------------------------------------------------
(* The report *)

\* results.reduce((sum, r) => sum + r[field], 0)
RECURSIVE Reduce(_, _)
Reduce(rs, field) ==
    IF rs = <<>> THEN 0 ELSE rs[1][field] + Reduce(Tail(rs), field)

\* the lines one file's block adds; many is results.length > 1
FileBlock(r, many) ==
    (IF many THEN <<"">> ELSE <<>>) \o
    << "- " \o r.path,
       "  words: " \o formatNumber(r.wordCount),
       "  characters: " \o formatNumber(r.charCount),
       "  paragraphs: " \o formatNumber(r.paragraphCount),
       "  read time: " \o formatReadTime(Minutes(r.readTime)) >>

RECURSIVE FileBlocks(_, _)
FileBlocks(rs, many) ==
    IF rs = <<>> THEN <<>> ELSE FileBlock(rs[1], many) \o FileBlocks(Tail(rs), many)

\* ShowTotals for a single file too
ShowTotalsSingle(rs) == Len(rs) >= 1

\* whether the totals are shown
ShowTotals(rs) == Len(rs) > 1

\* TotalsBlock with "\ntotals:" whatever totalOnly is
TotalsBlockBlank(rs, totalOnly) ==
    << "",
       "totals:",
       "  files: " \o formatNumber(Len(rs)),
       "  words: " \o formatNumber(Reduce(rs, "wordCount")),
       "  characters: " \o formatNumber(Reduce(rs, "charCount")),
       "  paragraphs: " \o formatNumber(Reduce(rs, "paragraphCount")),
       "  total read time: " \o formatReadTime(Minutes(Reduce(rs, "readTime"))) >>

\* the lines of the totals; "\ntotals:" is an empty line and the header
TotalsBlock(rs, totalOnly) ==
    LET totalWords == Reduce(rs, "wordCount")
        totalChars == Reduce(rs, "charCount")
        totalParas == Reduce(rs, "paragraphCount")
        totalTime == Reduce(rs, "readTime")
    IN  (IF ~totalOnly THEN <<"">> ELSE <<>>) \o
        << "totals:",
           "  files: " \o formatNumber(Len(rs)),
           "  words: " \o formatNumber(totalWords),
           "  characters: " \o formatNumber(totalChars),
           "  paragraphs: " \o formatNumber(totalParas),
           "  total read time: " \o formatReadTime(Minutes(totalTime)) >>

\* what processFiles prints once results is not empty
Render(rs, totalOnly) ==
    (IF ~totalOnly THEN FileBlocks(rs, Len(rs) > 1) ELSE <<>>) \o
    (IF ShowTotals(rs) THEN TotalsBlock(rs, totalOnly) ELSE <<>>)

-----------------------------------------------------------------------------
(* The program *)

files == values.files

\* results.push(stats) with stats = { path, ...processText(content) }
PushStats(rs, path, content) ==
    LET st == processText(content)
    IN  Append(rs, [path |-> path, wordCount |-> st.wordCount,
                    charCount |-> st.charCount,
                    paragraphCount |-> st.paragraphCount,
                    readTime |-> st.readTime])

\* where the loop goes on once processFile has returned or thrown: the next
\* argument after a file, the next file of the scan inside a directory
AfterFile(br) == IF br = "file" THEN "loop" ELSE "scan"

NextArg(br, k) == IF br = "file" THEN k + 1 ELSE k

\* a new entry of the history of resolved paths
Entry(path, k) ==
    [path |-> path, arg |-> k, attempts |-> 0, seen |-> "none", read |-> "none"]

\* if (values.help) { ...; process.exit(0) }
HandleHelp ==
    /\ pc = "start"
    /\ values.help
    /\ stdout' = Append(stdout, UsageText)
    /\ exitCode' = ExitHelp
    /\ pc' = "exited"
    /\ UNCHANGED <<values, fs, i, branch, cur, scanList, results, stderr,
                   resolved, fsOps, envSteps, raced, arg, ret>>

\* if (values.version) { ...; process.exit(0) }
HandleVersion ==
    /\ pc = "start"
    /\ ~values.help
    /\ values.version
    /\ stdout' = Append(stdout, VersionText)
    /\ exitCode' = ExitHelp
    /\ pc' = "exited"
    /\ UNCHANGED <<values, fs, i, branch, cur, scanList, results, stderr,
                   resolved, fsOps, envSteps, raced, arg, ret>>

\* if (files.length === 0) { console.error(...); process.exit(1) }
NoFilesSpecified ==
    /\ pc = "start"
    /\ ~values.help
    /\ ~values.version
    /\ Len(files) = 0
    /\ stderr' = Append(stderr, NoFilesText)
    /\ exitCode' = ExitUsage
    /\ pc' = "exited"
    /\ UNCHANGED <<values, fs, i, branch, cur, scanList, results, stdout,
                   resolved, fsOps, envSteps, raced, arg, ret>>

\* processFiles() is called
StartProcessFiles ==
    /\ pc = "start"
    /\ ~values.help
    /\ ~values.version
    /\ Len(files) # 0
    /\ i' = 1
    /\ pc' = "loop"
    /\ UNCHANGED <<values, fs, branch, cur, scanList, results, stderr, stdout,
                   exitCode, resolved, fsOps, envSteps, raced, arg, ret>>

\* for (const path of files): if (await Bun.file(path).exists())
CheckPath ==
    /\ pc = "loop"
    /\ i <= Len(files)
    /\ fsOps' = fsOps + 1
    /\ IF Exists(fs, files[i])
       THEN /\ branch' = "file"
            /\ cur' = files[i]
            /\ resolved' = Append(resolved, Entry(files[i], i))
            /\ pc' = "pfExists"
       ELSE /\ branch' = "dir"
            /\ pc' = "glob"
            /\ UNCHANGED <<cur, resolved>>
    /\ UNCHANGED <<values, fs, i, scanList, results, stderr, stdout, exitCode,
                   envSteps, raced, arg, ret>>

\* glob.scan({ cwd: path, ... }) of a directory: the iteration begins
ScanStart ==
    /\ pc = "glob"
    /\ files[i] \in Dirs
    /\ fsOps' = fsOps + 1
    /\ scanList' = ScanResult(fs, values.recursive)
    /\ pc' = "scan"
    /\ UNCHANGED <<values, fs, i, branch, cur, results, stderr, stdout, exitCode,
                   resolved, envSteps, raced, arg, ret>>

\* glob.scan of what is no directory throws; the catch around the body of
\* the loop logs it and the loop goes to the next argument
ScanThrows ==
    /\ pc = "glob"
    /\ files[i] \notin Dirs
    /\ fsOps' = fsOps + 1
    /\ stderr' = CatchPathError(stderr, files[i], ScanError)
    /\ i' = i + 1
    /\ pc' = "loop"
    /\ UNCHANGED <<values, fs, branch, cur, scanList, results, stdout, exitCode,
                   resolved, envSteps, raced, arg, ret>>

\* for await (const file of glob.scan(...)): the next file of the listing
ScanYield ==
    /\ pc = "scan"
    /\ scanList # <<>>
    /\ cur' = Head(scanList)
    /\ scanList' = Tail(scanList)
    /\ resolved' = Append(resolved, Entry(Head(scanList), i))
    /\ pc' = "pfExists"
    /\ UNCHANGED <<values, fs, i, branch, results, stderr, stdout, exitCode,
                   fsOps, envSteps, raced, arg, ret>>

\* a file deleted since the scan began may be left out by the scan (it lists
\* the directory as it goes) or yielded still (ScanYield)
ScanSkip ==
    /\ pc = "scan"
    /\ scanList # <<>>
    /\ fs[Head(scanList)] = "absent"
    /\ scanList' = Tail(scanList)
    /\ UNCHANGED <<values, fs, pc, i, branch, cur, results, stderr, stdout,
                   exitCode, resolved, fsOps, envSteps, raced, arg, ret>>

\* the scan has nothing left: the next argument
ScanDone ==
    /\ pc = "scan"
    /\ scanList = <<>>
    /\ i' = i + 1
    /\ pc' = "loop"
    /\ UNCHANGED <<values, fs, branch, cur, scanList, results, stderr, stdout,
                   exitCode, resolved, fsOps, envSteps, raced, arg, ret>>

\* processFile: const exists = await file.exists(); if (!exists) throw ...
\* The throw is caught by the try around the call of processFile.
processFileExists ==
    /\ pc = "pfExists"
    /\ fsOps' = fsOps + 1
    /\ resolved' = [resolved EXCEPT ![Len(resolved)].attempts = @ + 1,
                                    ![Len(resolved)].seen = fs[cur]]
    /\ IF Exists(fs, cur)
       THEN /\ pc' = "pfRead"
            /\ UNCHANGED <<i, stderr>>
       ELSE /\ stderr' = CatchFileError(stderr, cur, NotFoundError(cur))
            /\ i' = NextArg(branch, i)
            /\ pc' = AfterFile(branch)
    /\ UNCHANGED <<values, fs, branch, cur, scanList, results, stdout, exitCode,
                   envSteps, raced, arg, ret>>

\* processFile: const content = await file.text(); return { path, ... };
\* then results.push(stats), or the catch when text() rejects
processFileText ==
    /\ pc = "pfRead"
    /\ fsOps' = fsOps + 1
    /\ resolved' = [resolved EXCEPT ![Len(resolved)].read = fs[cur]]
    /\ LET r == ReadText(fs, cur)
       IN  IF r.ok
           THEN /\ results' = PushStats(results, cur, r.text)
                /\ UNCHANGED stderr
           ELSE /\ stderr' = CatchFileError(stderr, cur, r.err)
                /\ UNCHANGED results
    /\ i' = NextArg(branch, i)
    /\ pc' = AfterFile(branch)
    /\ UNCHANGED <<values, fs, branch, cur, scanList, stdout, exitCode,
                   envSteps, raced, arg, ret>>

\* the for loop over files has ended
LoopDone ==
    /\ pc = "loop"
    /\ i > Len(files)
    /\ pc' = "report"
    /\ UNCHANGED <<values, fs, i, branch, cur, scanList, results, stderr, stdout,
                   exitCode, resolved, fsOps, envSteps, raced, arg, ret>>

\* if (results.length === 0) { console.log(...); process.exit(0) }
ReportEmpty ==
    /\ pc = "report"
    /\ Len(results) = 0
    /\ stdout' = Append(stdout, NoValidText)
    /\ exitCode' = ExitEmpty
    /\ pc' = "exited"
    /\ UNCHANGED <<values, fs, i, branch, cur, scanList, results, stderr,
                   resolved, fsOps, envSteps, raced, arg, ret>>

\* the per-file blocks and the totals; processFiles returns and the process
\* ends with code 0
ReportResults ==
    /\ pc = "report"
    /\ Len(results) # 0
    /\ stdout' = stdout \o Render(results, values.totalOnly)
    /\ exitCode' = ExitNormal
    /\ pc' = "exited"
    /\ UNCHANGED <<values, fs, i, branch, cur, scanList, results, stderr,
                   resolved, fsOps, envSteps, raced, arg, ret>>

Program ==
    \/ HandleHelp \/ HandleVersion \/ NoFilesSpecified \/ StartProcessFiles
    \/ CheckPath \/ ScanStart \/ ScanThrows \/ ScanYield \/ ScanSkip \/ ScanDone
    \/ processFileExists \/ processFileText
    \/ LoopDone \/ ReportEmpty \/ ReportResults

-----------------------------------------------------------------------------
(* The environment *)

\* another process deletes a file
EnvDelete ==
    /\ pc # "exited"
    /\ envSteps < MaxEnvSteps
    /\ \E f \in Files :
          /\ fs[f] # "absent"
          /\ fs' = [fs EXCEPT ![f] = "absent"]
    /\ envSteps' = envSteps + 1
    /\ raced' = (raced \/ pc # "start")
    /\ UNCHANGED <<values, pc, i, branch, cur, scanList, results, stderr, stdout,
                   exitCode, resolved, fsOps, arg, ret>>

\* another process makes a file unreadable
EnvProtect ==
    /\ pc # "exited"
    /\ envSteps < MaxEnvSteps
    /\ \E f \in Files :
          /\ fs[f] = "ok"
          /\ fs' = [fs EXCEPT ![f] = "unreadable"]
    /\ envSteps' = envSteps + 1
    /\ raced' = (raced \/ pc # "start")
    /\ UNCHANGED <<values, pc, i, branch, cur, scanList, results, stderr, stdout,
                   exitCode, resolved, fsOps, arg, ret>>

Environment == EnvDelete \/ EnvProtect

\* every invocation with recognized options, every file present and readable
Init ==
    /\ values \in [help : BOOLEAN, version : BOOLEAN, recursive : BOOLEAN,
                 totalOnly : BOOLEAN, files : SeqsUpTo(PathArgs, MaxArgs)]
    /\ fs = [f \in Files |-> "ok"]
    /\ pc = "start"
    /\ i = 0
    /\ branch = "file"
    /\ cur = ""
    /\ scanList = <<>>
    /\ results = <<>>
    /\ stderr = <<>>
    /\ stdout = <<>>
    /\ exitCode = -1
    /\ resolved = <<>>
    /\ fsOps = 0
    /\ envSteps = 0
    /\ raced = FALSE
    /\ arg = 0
    /\ ret = 0

Next == Program \/ Environment

Spec == Init /\ [][Next]_vars

\* the event loop resumes the program whenever its await has settled; the
\* environment is free to act or not
FairSpec == Spec /\ WF_vars(Program)

-----------------------------------------------------------------------------
(* The pure functions on their own, and the report on any ResultSet *)

progVars == <<values, fs, i, branch, cur, scanList, results, stderr, stdout,
              exitCode, resolved, fsOps, envSteps, raced>>

\* the program's variables where only a function is called
NoProgram ==
    /\ values = [help |-> FALSE, version |-> FALSE, recursive |-> FALSE,
               totalOnly |-> FALSE, files |-> <<>>]
    /\ fs = [f \in Files |-> "ok"]
    /\ i = 0
    /\ branch = "file"
    /\ cur = ""
    /\ scanList = <<>>
    /\ results = <<>>
    /\ stderr = <<>>
    /\ stdout = <<>>
    /\ exitCode = -1
    /\ resolved = <<>>
    /\ fsOps = 0
    /\ envSteps = 0
    /\ raced = FALSE

\* processText(text) of every text of at most MaxLen characters
InitText ==
    /\ NoProgram
    /\ pc = "call"
    /\ arg \in SeqsUpTo(Alphabet, MaxLen)
    /\ ret = 0

CallProcessText ==
    /\ pc = "call"
    /\ ret' = processText(arg)
    /\ pc' = "returned"
    /\ UNCHANGED <<progVars, arg>>

SpecText == InitText /\ [][CallProcessText]_vars

\* the read time of every word count up to MaxWords
InitReadTime ==
    /\ NoProgram
    /\ pc = "call"
    /\ arg \in 0..MaxWords
    /\ ret = 0

CallReadTime ==
    /\ pc = "call"
    /\ ret' = ReadTime(arg)
    /\ pc' = "returned"
    /\ UNCHANGED <<progVars, arg>>

SpecReadTime == InitReadTime /\ [][CallReadTime]_vars

\* formatReadTime(arg / Res) of every minute count up to MaxMinutes
InitFormat ==
    /\ NoProgram
    /\ pc = "call"
    /\ arg \in 0..(MaxMinutes * Res)
    /\ ret = ""

CallFormatReadTime ==
    /\ pc = "call"
    /\ ret' = formatReadTime(arg)
    /\ pc' = "returned"
    /\ UNCHANGED <<progVars, arg>>

SpecFormat == InitFormat /\ [][CallFormatReadTime]_vars

\* word counts of the files of a ResultSet: none, one, a minute's worth, one
\* more, an hour's worth
WordChoices == {0, 1, 238, 239, 14280}

\* processText of the text of w one-letter words joined by single spaces
StatsOfWords(path, w) ==
    [path |-> path,
     wordCount |-> w,
     charCount |-> IF w = 0 THEN 0 ELSE 2 * w - 1,
     paragraphCount |-> IF w = 0 THEN 0 ELSE 1,
     readTime |-> ReadTime(w)]

\* the path of the k-th file of a ResultSet
PathOf(k) == "/cwd/f" \o ToString(k) \o ".txt"

\* the program at its report, with every ResultSet of at most MaxFiles files
InitReport ==
    /\ values \in [help : {FALSE}, version : {FALSE}, recursive : {FALSE},
                 totalOnly : BOOLEAN, files : {<<"d">>}]
    /\ fs = [f \in Files |-> "ok"]
    /\ pc = "report"
    /\ i = 2
    /\ branch = "dir"
    /\ cur = ""
    /\ scanList = <<>>
    /\ results \in {[k \in 1..Len(ws) |-> StatsOfWords(PathOf(k), ws[k])] :
                       ws \in SeqsUpTo(WordChoices, MaxFiles)}
    /\ stderr = <<>>
    /\ stdout = <<>>
    /\ exitCode = -1
    /\ resolved = <<>>
    /\ fsOps = 0
    /\ envSteps = 0
    /\ raced = FALSE
    /\ arg = 0
    /\ ret = 0

SpecReport == InitReport /\ [][ReportEmpty \/ ReportResults]_vars

-----------------------------------------------------------------------------
(* Properties: definitions they share *)

\* the sum of a field over a ResultSet, entry by entry from the first
SumOf(rs, field) ==
    LET S[k \in 0..Len(rs)] == IF k = 0 THEN 0 ELSE S[k - 1] + rs[k][field]
    IN  S[Len(rs)]

PathsOf(seq) == [k \in 1..Len(seq) |-> seq[k].path]

Count(seq, P(_)) == Cardinality({k \in DOMAIN seq : P(seq[k])})

\* the entries of the history whose call of processFile has ended
Completed ==
    IF pc \in {"pfExists", "pfRead"}
    THEN SubSeq(resolved, 1, Len(resolved) - 1)
    ELSE resolved

\* the analysis of a resolved path succeeded: the file was there when
\* processFile checked it and could be read when processFile read it
Succeeded(e) == e.seen # "absent" /\ e.read = "ok"

Failed(e) == ~Succeeded(e)

\* the lines console.error can write for a failure of processFile(path)
FileErrorLines(path) ==
    { "error processing " \o path \o ": Error: file not found: " \o path,
      "error processing " \o path \o ": ENOENT: no such file or directory, open",
      "error processing " \o path \o ": EACCES: permission denied, open" }

\* a run that got past the handling of help, version and usage
Processing == ~values.help /\ ~values.version /\ values.files # <<>>

HasTotals == \E k \in DOMAIN stdout : stdout[k] = "totals:"

\* ceiling(w / 238): the least r with 238 * r >= w
Ceil238(w) == CHOOSE r \in 0..w : 238 * r >= w /\ \A q \in 0..w : 238 * q >= w => r <= q

-----------------------------------------------------------------------------
(* C1 *)

\* where the scan of the directory lists a path
ListedAt(path) == CHOOSE k \in DOMAIN DirEntries : DirEntries[k].path = path

\* C1: when processing finishes, every resolved path was attempted exactly
\* once, in argument order and inside an expansion in the order of the
\* listing; the ResultSet is exactly the subsequence of the
\* resolved paths whose analysis succeeded; exactly one error was reported
\* for each failed path; the loop reached the end of the arguments; and the
\* exit code is 0.
C1_EveryPathOnce ==
    (pc = "exited" /\ Processing) =>
        /\ \A k \in DOMAIN resolved : resolved[k].attempts = 1
        /\ \A j, k \in DOMAIN resolved :
              j < k =>
                  /\ resolved[j].arg <= resolved[k].arg
                  /\ resolved[j].arg = resolved[k].arg =>
                        ListedAt(resolved[j].path) < ListedAt(resolved[k].path)
        /\ PathsOf(results) = PathsOf(SelectSeq(resolved, Succeeded))
        /\ \A p \in Files :
              Count(stderr, LAMBDA l : l \in FileErrorLines(p))
                = Count(resolved, LAMBDA e : e.path = p /\ Failed(e))
        /\ i = Len(files) + 1
        /\ scanList = <<>>
        /\ exitCode = 0

\* one path failed, one succeeded, and the run ended
C1_Witness ==
    /\ pc = "exited"
    /\ Processing
    /\ Len(resolved) = 2
    /\ Failed(resolved[1])
    /\ Succeeded(resolved[2])
    /\ Len(results) = 1
    /\ Len(stderr) = 1
    /\ exitCode = 0

-----------------------------------------------------------------------------
(* C2 *)

\* C2: for either value of totalOnly, the totals block is printed if and
\* only if the ResultSet has more than one entry, and it then holds the
\* number of entries, the sums of the word, character and paragraph counts,
\* and the read time formatted once from the sum of the per-file minutes.
C2_Totals ==
    pc = "exited" =>
        /\ HasTotals <=> Len(results) > 1
        /\ HasTotals =>
              /\ Len(stdout) >= 6
              /\ SubSeq(stdout, Len(stdout) - 5, Len(stdout)) =
                    << "totals:",
                       "  files: " \o formatNumber(Len(results)),
                       "  words: " \o formatNumber(SumOf(results, "wordCount")),
                       "  characters: " \o formatNumber(SumOf(results, "charCount")),
                       "  paragraphs: " \o formatNumber(SumOf(results, "paragraphCount")),
                       "  total read time: "
                           \o formatReadTime(Minutes(SumOf(results, "readTime"))) >>

\* three files whose rounded-up minutes add up to more than the minutes of
\* their words together, with their totals
C2_Witness ==
    /\ pc = "exited"
    /\ Len(results) = 3
    /\ \A k \in 1..3 : results[k].wordCount = 239
    /\ HasTotals
    /\ stdout[Len(stdout)] = "  total read time: 6 minutes"

-----------------------------------------------------------------------------
(* C3 *)

\* what the expansion of the directory yields in the file system fsys
Expansion(fsys, recursive) ==
    {DirEntries[k].path : k \in
        {j \in DOMAIN DirEntries :
            /\ DirEntries[j].kind = "file"
            /\ DirEntries[j].ext \in {"txt", "md", "html", "json"}
            /\ (DirEntries[j].depth > 0 => recursive)
            /\ fsys[DirEntries[j].path] # "absent"}}

\* the paths resolved for the a-th argument
ResolvedFor(a) == PathsOf(SelectSeq(resolved, LAMBDA e : e.arg = a))

\* C3: each argument is resolved on its own.  With the file system left
\* alone during the run, an argument that names an existing file is yielded
\* as it is, whatever its extension, and any other argument yields exactly
\* the files under the directory whose extension is txt, md, html or json,
\* from directly inside it without the recursive flag and from any depth
\* with it.  In every run an expansion yields no directory, no file of
\* another extension and, without the flag, no nested file.
C3_Resolution ==
    \A a \in 1..Len(files) :
        (Processing /\ (a < i \/ pc \in {"report", "exited"})) =>
            LET got == ResolvedFor(a)
                set == {got[k] : k \in DOMAIN got}
            IN  /\ Cardinality(set) = Len(got)
                /\ set \subseteq
                      {files[a]} \cup Expansion([f \in Files |-> "ok"], values.recursive)
                /\ ~raced =>
                      IF files[a] \in Files /\ fs[files[a]] # "absent"
                      THEN got = <<files[a]>>
                      ELSE IF files[a] = "d"
                           THEN set = Expansion(fs, values.recursive)
                           ELSE got = <<>>

\* a file of another extension given by name and a directory expanded at
\* any depth, the file system left alone
C3_Witness ==
    /\ pc = "exited"
    /\ ~raced
    /\ files = <<"notes.csv", "d">>
    /\ values.recursive
    /\ PathsOf(resolved) =
          <<"notes.csv", "/cwd/d/a.txt", "/cwd/d/b.md", "/cwd/d/sub/e.json">>

-----------------------------------------------------------------------------
(* C4 *)

\* C4: the exit code is decided by the invocation: 0 for help or version,
\* with no path resolved or read; else 1 and "No files specified" where no
\* path is given, before any path is resolved or read; else 0, also where
\* every path fails, and then the one line on standard output is "no valid
\* text files found." and there is no block.
C4_ExitCode ==
    /\ pc # "exited" => exitCode = -1
    /\ pc = "exited" =>
          /\ exitCode = IF values.help \/ values.version THEN 0
                        ELSE IF Len(values.files) = 0 THEN 1 ELSE 0
          /\ (values.help \/ values.version) =>
                /\ fsOps = 0
                /\ resolved = <<>>
                /\ stderr = <<>>
                /\ Len(stdout) = 1
          /\ (~values.help /\ ~values.version /\ Len(values.files) = 0) =>
                /\ stderr = <<"Error: No files specified">>
                /\ stdout = <<>>
                /\ fsOps = 0
                /\ resolved = <<>>
          /\ (Processing /\ results = <<>>) =>
                stdout = <<"no valid text files found.">>

\* every path failed: paths were resolved, none gave a result, exit code 0
C4_Witness ==
    /\ pc = "exited"
    /\ Processing
    /\ Len(files) = 2
    /\ resolved # <<>>
    /\ stderr # <<>>
    /\ results = <<>>
    /\ exitCode = 0

-----------------------------------------------------------------------------
(* C5 *)

\* C5: with totalOnly no per-file block is printed: nothing at all for one
\* file, and for two or more the six lines of the totals with the header
\* first.  The header follows an empty line exactly when totalOnly is off.
C5_TotalsOnly ==
    pc = "exited" =>
        /\ values.totalOnly =>
              /\ \A k \in DOMAIN stdout, j \in DOMAIN results :
                    /\ stdout[k] # "- " \o results[j].path
                    /\ stdout[k] # "  read time: "
                                     \o formatReadTime(Minutes(results[j].readTime))
              /\ Len(results) = 1 => stdout = <<>>
              /\ Len(results) > 1 => Len(stdout) = 6 /\ stdout[1] = "totals:"
        /\ \A k \in DOMAIN stdout :
              stdout[k] = "totals:" =>
                  ((k > 1 /\ stdout[k - 1] = "") <=> ~values.totalOnly)
        /\ (~values.totalOnly /\ results # <<>>) =>
              \A j \in DOMAIN results :
                  \E k \in DOMAIN stdout : stdout[k] = "- " \o results[j].path

\* totalOnly and one file: nothing is printed
C5_Witness ==
    /\ pc = "exited"
    /\ values.totalOnly
    /\ Len(results) = 1
    /\ stdout = <<>>

-----------------------------------------------------------------------------
(* C6 *)

\* what holds in every state of a run beside an environment that deletes
\* files and makes them unreadable
C6_Inv ==
    /\ PathsOf(results) = PathsOf(SelectSeq(Completed, Succeeded))
    /\ \A k \in DOMAIN Completed :
          /\ Completed[k].seen = "absent" => Completed[k].read = "none"
          /\ Failed(Completed[k]) =>
                \E l \in DOMAIN stderr : stderr[l] \in FileErrorLines(Completed[k].path)
    /\ \A p \in Files :
          Count(stderr, LAMBDA l : l \in FileErrorLines(p))
            = Count(Completed, LAMBDA e : e.path = p /\ Failed(e))

\* C6: in every reachable state, each FileStats of the ResultSet is of a
\* file that was there and was read when it was analyzed; a file that had
\* vanished before its read is not in the ResultSet and an error naming it
\* was reported; and, whatever the environment does, the run goes on over
\* the remaining paths and ends.
C6_RaceTolerated == [](C6_Inv) /\ <>(pc = "exited")

\* a file vanished between processFile's check and its read, and the run
\* ended with the files after it analyzed
C6_Witness ==
    /\ pc = "exited"
    /\ raced
    /\ \E k \in DOMAIN resolved :
          /\ resolved[k].seen = "ok"
          /\ resolved[k].read = "absent"
          /\ k < Len(resolved)
          /\ Succeeded(resolved[Len(resolved)])

-----------------------------------------------------------------------------
(* C7 *)

\* where the maximal runs of non-whitespace of t begin
WordStarts(t) ==
    {k \in 1..Len(t) : ~IsWs(t[k]) /\ (k = 1 \/ IsWs(t[k - 1]))}

\* the blank-line separators of t: from a newline to a newline with nothing
\* but whitespace between them
Separators(t) ==
    {s \in (1..Len(t)) \X (1..Len(t)) :
        /\ s[1] < s[2]
        /\ t[s[1]] = "\n"
        /\ t[s[2]] = "\n"
        /\ \A k \in s[1]..s[2] : IsWs(t[k])}

\* those that lie in no other one
MaximalSeparators(t) ==
    {s \in Separators(t) :
        \A u \in Separators(t) : (u[1] <= s[1] /\ s[2] <= u[2]) => u = s}

InSeparator(t, k) == \E s \in MaximalSeparators(t) : s[1] <= k /\ k <= s[2]

\* where the non-empty segments between the maximal separators begin
SegmentStarts(t) ==
    {k \in 1..Len(t) : ~InSeparator(t, k) /\ (k = 1 \/ InSeparator(t, k - 1))}

\* C7: wordCount is the number of maximal runs of non-whitespace of the
\* text and paragraphCount the number of non-empty segments between its
\* maximal blank-line separators; the empty text gives 0 everywhere, and a
\* text without separator 1 paragraph if it is not empty, 0 if it is.
C7_TextMetrics ==
    pc = "returned" =>
        /\ ret.wordCount = Cardinality(WordStarts(arg))
        /\ ret.paragraphCount = Cardinality(SegmentStarts(arg))
        /\ ret.charCount = Len(arg)
        /\ arg = <<>> =>
              ret = [wordCount |-> 0, charCount |-> 0,
                     paragraphCount |-> 0, readTime |-> 0]
        /\ Separators(arg) = {} =>
              ret.paragraphCount = IF arg = <<>> THEN 0 ELSE 1

\* a separator of three newlines between two words
C7_Witness ==
    /\ pc = "returned"
    /\ arg = <<"A", "\n", "\n", "\n", "a">>
    /\ ret.wordCount = 2
    /\ ret.paragraphCount = 2

-----------------------------------------------------------------------------
(* C8 *)

\* C8: the read time is ceiling(wordCount / 238): a natural number, 0 only
\* for no word, 1 for 238 words and 2 for 239, and it never falls as the
\* word count grows.
C8_ReadTimeCeiling ==
    pc = "returned" =>
        /\ ret \in Nat
        /\ 238 * ret >= arg
        /\ 238 * (ret - 1) < arg
        /\ ret = 0 <=> arg = 0
        /\ arg = 238 => ret = 1
        /\ arg = 239 => ret = 2
        /\ \A w \in 0..arg : ReadTime(w) <= ret

C8_Witness ==
    /\ pc = "returned"
    /\ arg = 239
    /\ ret = 2

-----------------------------------------------------------------------------
(* C9 *)

\* floor(m / 60), floor(m mod 60) and round((m mod 1) * 60) of m = n / Res
HoursOf(n) == CHOOSE h \in 0..n : 60 * Res * h <= n /\ n < 60 * Res * (h + 1)

MinutesOf(n) ==
    CHOOSE m \in 0..59 :
        Res * m <= n - 60 * Res * HoursOf(n) /\ n - 60 * Res * HoursOf(n) < Res * (m + 1)

\* round(x): the integer s with s - 1/2 <= x < s + 1/2
SecondsOf(n) ==
    LET whole == CHOOSE w \in 0..n : Res * w <= n /\ n < Res * (w + 1)
        frac == n - Res * whole
    IN  CHOOSE s \in 0..60 :
            (2 * s - 1) * Res <= 2 * 60 * frac /\ 2 * 60 * frac < (2 * s + 1) * Res

Label(v, one, many) == ToString(v) \o " " \o (IF v = 1 THEN one ELSE many)

\* the components that are shown, in the order hours, minutes, seconds
Shown(n) ==
    SelectSeq(
        << [show |-> HoursOf(n) # 0, text |-> Label(HoursOf(n), "hour", "hours")],
           [show |-> MinutesOf(n) # 0, text |-> Label(MinutesOf(n), "minute", "minutes")],
           [show |-> SecondsOf(n) # 0 /\ HoursOf(n) = 0,
            text |-> Label(SecondsOf(n), "second", "seconds")] >>,
        LAMBDA c : c.show)

-----------------------------------------------------------------------------
(* C10 *)

\* a whole number of minutes as formatReadTime shows it: no seconds
WholeMinutes(t) ==
    LET h == HoursOf(t * Res)
        m == MinutesOf(t * Res)
    IN  IF t = 0 THEN "< 1 second"
        ELSE IF h = 0 THEN Label(m, "minute", "minutes")
        ELSE IF m = 0 THEN Label(h, "hour", "hours")
        ELSE Label(h, "hour", "hours") \o ", " \o Label(m, "minute", "minutes")

\* C10: with W the words and n >= 1 the entries of the ResultSet, the total
\* read time T is a natural number with ceiling(W / 238) <= T and
\* T <= ceiling(W / 238) + n - 1, T is at least the number of entries with
\* a word, and the totals show T in hours and minutes, without seconds.
C10_TotalReadTime ==
    (pc = "exited" /\ Len(results) >= 1) =>
        LET W == SumOf(results, "wordCount")
            T == SumOf(results, "readTime")
            n == Len(results)
        IN  /\ T \in Nat
            /\ Ceil238(W) <= T
            /\ T <= Ceil238(W) + n - 1
            /\ T >= Count(results, LAMBDA r : r.wordCount >= 1)
            /\ n > 1 => stdout[Len(stdout)] = "  total read time: " \o WholeMinutes(T)

\* three files of one word: three minutes for what reads in one
C10_Witness ==
    /\ pc = "exited"
    /\ Len(results) = 3
    /\ \A k \in 1..3 : results[k].wordCount = 1
    /\ stdout[Len(stdout)] = "  total read time: 3 minutes"

=============================================================================
